---- MODULE Spec2Model ----
(***************************************************************************)
(* A model of FileSystemAnalyzer (src/file_system_analyzer.py): the        *)
(* classifier categorize_file_type, the permission check                   *)
(* analyze_permissions, the walk of traverse_directory over a directory    *)
(* tree, and generate_report.  Paths and MIME types are strings, and the   *)
(* substring and extension tests are computed character by character.      *)
(***************************************************************************)
EXTENDS Integers, Sequences, FiniteSets, TLC

VARIABLES
    fs,                   \* the directory tree: path -> entry
    file_types,           \* self.file_types: category -> sequence of paths
    file_sizes,           \* self.file_sizes: category -> total bytes
    large_files,          \* self.large_files: sequence of <<path, size>>
    unusual_permissions,  \* self.unusual_permissions: sequence of paths
    pc,                   \* "idle", "walking", "done" or "raised"
    stack,                \* os.walk's stack of directories still to list
    files,                \* the files of the yielded directory not yet visited
    stdout,               \* what has been printed, in order
    classified,           \* the paths passed to categorize_file_type so far
    scans,                \* completed calls of traverse_directory
    arg,                  \* the classifier call under test: [path, magic]
    ret                   \* its return value

vars == <<fs, file_types, file_sizes, large_files, unusual_permissions, pc,
          stack, files, stdout, classified, scans, arg, ret>>

result == <<file_types, file_sizes, large_files, unusual_permissions>>

-----------------------------------------------------------------------------
(* Bounds of the model. *)

MaxSize == 2
MaxParts == 2
MaxReports == 1
MaxScans == 2

-----------------------------------------------------------------------------
(* Strings. *)

\* key in s (Python's substring test)
Contains(s, key) ==
    \E i \in 1..(Len(s) - Len(key) + 1) : SubSeq(s, i, i + Len(key) - 1) = key

\* s.rfind(c) for a one-character c, 1-based; 0 when c does not occur
RFind(s, c) ==
    LET hits == {i \in 1..Len(s) : SubSeq(s, i, i) = c}
    IN  IF hits = {} THEN 0 ELSE CHOOSE i \in hits : \A j \in hits : j <= i

\* os.path.splitext(p)[1]: the text from the last dot of the last path
\* component, unless that component has only leading dots before it
splitext_ext(p) ==
    LET sepIndex == RFind(p, "/")
        dotIndex == RFind(p, ".")
    IN  IF /\ dotIndex > sepIndex
           /\ \E k \in (sepIndex + 1)..(dotIndex - 1) : SubSeq(p, k, k) # "."
        THEN SubSeq(p, dotIndex, Len(p))
        ELSE ""

\* os.path.join(a, b) for a relative b and an a without a trailing slash
join(a, b) == a \o "/" \o b

-----------------------------------------------------------------------------
(* The classifier. *)

Category == {"Text", "Image", "Executable", "Video", "Audio", "PDF", "Other", "Unknown"}

\* the dict of line 37, in insertion order
categories == << <<"text", "Text">>, <<"image", "Image">>, <<"exec", "Executable">>,
                 <<"video", "Video">>, <<"audio", "Audio">>, <<"application/pdf", "PDF">> >>

\* the for loop of lines 50-55 from the i-th key on, then line 58
RECURSIVE scan_categories(_, _, _)
scan_categories(file_path, mime_type, i) ==
    IF i > Len(categories) THEN "Other"
    ELSE IF Contains(mime_type, categories[i][1]) THEN categories[i][2]
    ELSE IF splitext_ext(file_path) = ".txt" THEN "Text"
    ELSE scan_categories(file_path, mime_type, i + 1)

\* categorize_file_type without the test of line 46 for an empty type
categorize_no_empty_check(file_path, magic) ==
    IF magic.raises THEN "Unknown"
    ELSE scan_categories(file_path, magic.mime, 1)

\* magic is the outcome of self.file_type_magic.from_file(file_path):
\* [raises |-> TRUE] or [raises |-> FALSE, mime |-> the type string]
categorize_file_type(file_path, magic) ==
    IF magic.raises THEN "Unknown"
    ELSE IF magic.mime = "" THEN "Unknown"
    ELSE scan_categories(file_path, magic.mime, 1)

-----------------------------------------------------------------------------
(* The permission check. *)

S_IWOTH == 2

\* mode & bit, for a bit that is a power of two
BitSet(mode, bit) == (mode \div bit) % 2 = 1

\* analyze_permissions testing the group-writable bit as well
analyze_permissions_any_write(st) ==
    IF st.raises THEN FALSE
    ELSE IF BitSet(st.st_mode, S_IWOTH) \/ BitSet(st.st_mode, 16) THEN TRUE
    ELSE FALSE

\* st is the outcome of os.stat(file_path): [raises, st_mode]
analyze_permissions(st) ==
    IF st.raises THEN FALSE
    ELSE IF BitSet(st.st_mode, S_IWOTH) THEN TRUE
    ELSE FALSE

-----------------------------------------------------------------------------
(* The directory tree. *)

directory == "/r"
subdir == join(directory, "d")

\* self.size_threshold, in a unit of size that makes it 1: the sizes of the
\* tree lie below, at and above it
size_threshold == 1
Sizes == 0..MaxSize

\* rw-rw-rw- (0o666), and setuid rwxrwxr-x (0o4775: setuid, group-writable
\* and others-execute, but not others-writable)
Modes == {438, 2557}

MagicError == [raises |-> TRUE, mime |-> ""]
Detected(m) == [raises |-> FALSE, mime |-> m]

\* what libmagic says of the files of a scanned tree
TreeMagic == {Detected("text/plain"), Detected("image/png"), MagicError}

\* what is wrong with a file: nothing, it is a symbolic link, its status
\* (and so its size) cannot be read, or its status can no longer be read when
\* analyze_permissions asks for it
FileFaults == {"none", "symlink", "getsize:PermissionError",
               "getsize:FileNotFoundError", "stat"}

\* what is wrong with the directories: nothing, the root cannot be listed,
\* the subdirectory cannot be listed, or the subdirectory is a symbolic link
DirFaults == {"none", "root_denied", "sub_denied", "sub_symlink"}

FileAttrs == [fault : FileFaults, size : Sizes, mode : Modes, magic : TreeMagic]

DirEntry(parent, islink, denied) ==
    [parent |-> parent, isdir |-> TRUE, islink |-> islink, denied |-> denied,
     size |-> 0, mode |-> 493, magic |-> MagicError,
     getsize_err |-> "", stat_err |-> FALSE]

FileEntry(parent, a) ==
    [parent |-> parent, isdir |-> FALSE, islink |-> a.fault = "symlink",
     denied |-> FALSE, size |-> a.size, mode |-> a.mode, magic |-> a.magic,
     getsize_err |-> IF a.fault = "getsize:PermissionError" THEN "PermissionError"
                     ELSE IF a.fault = "getsize:FileNotFoundError" THEN "FileNotFoundError"
                     ELSE "",
     stat_err |-> a.fault = "stat"]

\* /r holds a.txt and the directory d; b.png is in /r or in /r/d
Tree(parent2, dirfault, a1, a2) ==
    (directory :> DirEntry("", FALSE, dirfault = "root_denied"))
    @@ (subdir :> DirEntry(directory, dirfault = "sub_symlink", dirfault = "sub_denied"))
    @@ (join(directory, "a.txt") :> FileEntry(directory, a1))
    @@ (join(parent2, "b.png") :> FileEntry(parent2, a2))

Paths == DOMAIN fs
FilePaths == {p \in Paths : ~fs[p].isdir}

\* os.scandir(top): the entries of top
scandir(top) == {p \in Paths : fs[p].parent = top}

\* os.path.islink
islink(p) == fs[p].islink

\* some directory on the way from the root to p has lost its permissions
RECURSIVE Unsearchable(_)
Unsearchable(p) ==
    IF p = "" THEN FALSE
    ELSE (fs[p].isdir /\ fs[p].denied) \/ Unsearchable(fs[p].parent)

\* os.path.getsize(p), which is os.stat(p).st_size: [raises, exc, size]
getsize(p) ==
    IF Unsearchable(p)
    THEN [raises |-> TRUE, exc |-> "PermissionError", size |-> 0]
    ELSE IF fs[p].getsize_err # ""
    THEN [raises |-> TRUE, exc |-> fs[p].getsize_err, size |-> 0]
    ELSE [raises |-> FALSE, exc |-> "", size |-> fs[p].size]

\* os.stat(p) as analyze_permissions calls it, after getsize: [raises, st_mode]
os_stat(p) ==
    IF Unsearchable(p) \/ fs[p].getsize_err # "" \/ fs[p].stat_err
    THEN [raises |-> TRUE, st_mode |-> 0]
    ELSE [raises |-> FALSE, st_mode |-> fs[p].mode]

\* issubclass(exc, cls) among the exception classes involved
IsSubclass(exc, cls) ==
    \/ exc = cls
    \/ cls = "Exception"
    \/ cls = "OSError" /\ exc \in {"PermissionError", "FileNotFoundError"}

-----------------------------------------------------------------------------
(* The analyzer's collections. *)

EmptyDict == [k \in {} |-> 0]

\* self.file_types[k] = [v]
DictAppend_assign(d, k, v) ==
    IF k \in DOMAIN d THEN [d EXCEPT ![k] = <<v>>] ELSE d @@ (k :> <<v>>)

\* self.file_types[k].append(v) on a defaultdict(list)
DictAppend(d, k, v) ==
    IF k \in DOMAIN d THEN [d EXCEPT ![k] = Append(@, v)] ELSE d @@ (k :> <<v>>)

\* self.file_sizes[k] = n
DictAdd_assign(d, k, n) ==
    IF k \in DOMAIN d THEN [d EXCEPT ![k] = n] ELSE d @@ (k :> n)

\* self.file_sizes[k] += n on a defaultdict(int)
DictAdd(d, k, n) ==
    IF k \in DOMAIN d THEN [d EXCEPT ![k] = @ + n] ELSE d @@ (k :> n)

NoArg == [path |-> "", magic |-> MagicError]

\* the state __init__ leaves
Fresh ==
    /\ file_types = EmptyDict
    /\ file_sizes = EmptyDict
    /\ large_files = <<>>
    /\ unusual_permissions = <<>>
    /\ pc = "idle"
    /\ stack = <<>>
    /\ files = {}
    /\ stdout = <<>>
    /\ classified = {}
    /\ scans = 0

Init ==
    /\ \E parent2 \in {directory, subdir}, dirfault \in DirFaults, a1, a2 \in FileAttrs :
          fs = Tree(parent2, dirfault, a1, a2)
    /\ Fresh
    /\ arg = NoArg
    /\ ret = ""

-----------------------------------------------------------------------------
(* traverse_directory. *)

\* an inner handler that catches PermissionError alone
inner_except_permission_only(exc) == IsSubclass(exc, "PermissionError")

\* the inner handler of line 111: except (PermissionError, OSError)
inner_except(exc) == IsSubclass(exc, "PermissionError") \/ IsSubclass(exc, "OSError")

\* the outer handlers of lines 115-118: what is printed, "" when the
\* exception is not caught there and leaves traverse_directory
outer_except(exc) ==
    IF IsSubclass(exc, "PermissionError")
    THEN "Error: No permission to access directory " \o directory
    ELSE IF IsSubclass(exc, "Exception")
    THEN "Unexpected error during directory traversal: " \o exc
    ELSE ""

ErrorLine(text) == [kind |-> "error", text |-> text]

\* os.walk(self.directory) is called without onerror: a directory whose
\* listing fails yields nothing and the error is dropped
walk_lists(top) == ~fs[top].denied

\* os.walk with followlinks=True
walk_follows_links(p) == fs[p].isdir

\* os.walk without followlinks: the subdirectories it goes on to list
walk_descends(p) == fs[p].isdir /\ ~islink(p)

\* the size test with >= for >
is_large_ge(file_size) == file_size >= size_threshold

\* the size test of line 104
is_large(file_size) == file_size > size_threshold

\* a set as a sequence, in some order
RECURSIVE SeqOf(_)
SeqOf(S) == IF S = {} THEN <<>> ELSE LET x == CHOOSE y \in S : TRUE
                                     IN  <<x>> \o SeqOf(S \ {x})

\* traverse_directory() is called on the fresh analyzer
StartScan ==
    /\ pc = "idle"
    /\ pc' = "walking"
    /\ stack' = <<directory>>
    /\ UNCHANGED <<fs, result, files, stdout, classified, scans, arg, ret>>

\* os.walk pops a directory, lists it and yields its files; the loop body
\* over the previous directory's files has finished
WalkDir ==
    /\ pc = "walking"
    /\ files = {}
    /\ stack # <<>>
    /\ LET top == Head(stack)
           entries == IF walk_lists(top) THEN scandir(top) ELSE {}
           dirs == {p \in entries : fs[p].isdir}
           nondirs == entries \ dirs
       IN  /\ files' = nondirs
           /\ stack' = SeqOf({p \in dirs : walk_descends(p)}) \o Tail(stack)
    /\ UNCHANGED <<fs, result, pc, stdout, classified, scans, arg, ret>>

\* one pass of the loop body of lines 89-113 for the file full_path
VisitFile(full_path) ==
    /\ pc = "walking"
    /\ full_path \in files
    /\ IF islink(full_path)
       THEN /\ files' = files \ {full_path}
            /\ UNCHANGED <<result, pc, stack, stdout, classified, scans>>
       ELSE LET sz == getsize(full_path) IN
            IF sz.raises
            THEN IF inner_except(sz.exc)
                 THEN /\ files' = files \ {full_path}
                      /\ UNCHANGED <<result, pc, stack, stdout, classified, scans>>
                 ELSE /\ files' = {}
                      /\ stack' = <<>>
                      /\ scans' = scans + 1
                      /\ IF outer_except(sz.exc) # ""
                         THEN pc' = "done" /\ stdout' = Append(stdout, ErrorLine(outer_except(sz.exc)))
                         ELSE pc' = "raised" /\ stdout' = stdout
                      /\ UNCHANGED <<result, classified>>
            ELSE LET file_size == sz.size
                     file_type == categorize_file_type(full_path, fs[full_path].magic)
                 IN  /\ classified' = classified \cup {full_path}
                     /\ file_types' = DictAppend(file_types, file_type, full_path)
                     /\ file_sizes' = DictAdd(file_sizes, file_type, file_size)
                     /\ large_files' = IF is_large(file_size)
                                       THEN Append(large_files, <<full_path, file_size>>)
                                       ELSE large_files
                     /\ unusual_permissions' =
                            IF analyze_permissions(os_stat(full_path))
                            THEN Append(unusual_permissions, full_path)
                            ELSE unusual_permissions
                     /\ files' = files \ {full_path}
                     /\ UNCHANGED <<pc, stack, stdout, scans>>
    /\ UNCHANGED <<fs, arg, ret>>

\* os.walk is exhausted and traverse_directory returns
FinishScan ==
    /\ pc = "walking"
    /\ files = {}
    /\ stack = <<>>
    /\ pc' = "done"
    /\ scans' = scans + 1
    /\ UNCHANGED <<fs, result, stack, files, stdout, classified, arg, ret>>

\* traverse_directory() is called again on the same analyzer
Rescan ==
    /\ pc = "done"
    /\ scans < MaxScans
    /\ pc' = "walking"
    /\ stack' = <<directory>>
    /\ UNCHANGED <<fs, result, files, stdout, classified, scans, arg, ret>>

-----------------------------------------------------------------------------
(* generate_report. *)

\* sorted(self.large_files, key=lambda x: x[1], reverse=True): stable, by
\* descending size
RECURSIVE sorted_large(_)
sorted_large(seq) ==
    IF seq = <<>> THEN <<>>
    ELSE LET top == CHOOSE i \in 1..Len(seq) :
                       /\ \A j \in 1..Len(seq) : seq[j][2] <= seq[i][2]
                       /\ \A j \in 1..(i - 1) : seq[j][2] < seq[i][2]
         IN  <<seq[top]>> \o sorted_large(SubSeq(seq, 1, top - 1) \o SubSeq(seq, top + 1, Len(seq)))

IsReport(line) == line.kind = "report"

\* the values generate_report prints: per category the number of files and
\* the total size, the large files by descending size, the flagged paths
ReportLine ==
    [kind |-> "report",
     types |-> [c \in DOMAIN file_types |->
                  <<Len(file_types[c]), IF c \in DOMAIN file_sizes THEN file_sizes[c] ELSE 0>>],
     large |-> sorted_large(large_files),
     unusual |-> unusual_permissions]

\* generate_report() after a scan; reading self.file_sizes[file_type] on the
\* defaultdict inserts a missing key
GenerateReport ==
    /\ pc = "done"
    /\ Len(SelectSeq(stdout, IsReport)) < MaxReports
    /\ stdout' = Append(stdout, ReportLine)
    /\ file_sizes' = [c \in DOMAIN file_sizes \cup DOMAIN file_types |->
                        IF c \in DOMAIN file_sizes THEN file_sizes[c] ELSE 0]
    /\ UNCHANGED <<fs, file_types, large_files, unusual_permissions, pc, stack,
                   files, classified, scans, arg, ret>>

-----------------------------------------------------------------------------
(* The specifications. *)

\* main.py: one analyzer, one traversal, one report
Next ==
    \/ StartScan
    \/ WalkDir
    \/ \E f \in FilePaths : VisitFile(f)
    \/ FinishScan
    \/ GenerateReport

Spec == Init /\ [][Next]_vars

\* the same analyzer traversed up to MaxScans times
NextRescan == Next \/ Rescan

SpecRescan == Init /\ [][NextRescan]_vars

\* the classifier alone, on paths and detection outcomes
MimeWords == {"text/", "image/", "x-exec", "video/", "audio/", "application/pdf",
              "application/", "inode/x-empty", "octet-stream", "plain"}

\* the concatenations of at most n words
RECURSIVE Concats(_)
Concats(n) == IF n = 0 THEN {""}
              ELSE LET prev == Concats(n - 1)
                   IN  prev \cup {p \o w : p \in prev, w \in MimeWords}

MagicOutcomes == {MagicError} \cup {Detected(m) : m \in Concats(MaxParts)}

ClassifyPaths == {"/r/a.txt", "/r/.txt", "/r/b.png", "/r/c", "/r.txt/c", "/r/d.txt.gz"}

InitClassify ==
    /\ fs = (directory :> DirEntry("", FALSE, FALSE))
    /\ Fresh
    /\ arg \in [path : ClassifyPaths, magic : MagicOutcomes]
    /\ ret = ""

\* categorize_file_type(arg.path) with the detection outcome arg.magic
CallClassify ==
    /\ arg # NoArg
    /\ ret = ""
    /\ ret' = categorize_file_type(arg.path, arg.magic)
    /\ UNCHANGED <<fs, result, pc, stack, files, stdout, classified, scans, arg>>

NextClassify == CallClassify

SpecClassify == InitClassify /\ [][NextClassify]_vars

-----------------------------------------------------------------------------
(* What the tree says of a file. *)

\* os.walk lists the directory d: every directory from the root down to d
\* can be listed, and none below the root is a symbolic link
RECURSIVE Reached(_)
Reached(d) ==
    IF d = directory THEN ~fs[d].denied
    ELSE /\ ~fs[d].denied
         /\ ~fs[d].islink
         /\ Reached(fs[d].parent)

\* a file the scan can analyze: not a symbolic link, in a directory the walk
\* lists, and with a size that can be read
Analyzable(f) ==
    /\ ~fs[f].isdir
    /\ ~fs[f].islink
    /\ fs[f].getsize_err = ""
    /\ Reached(fs[f].parent)

\* a path that is a symbolic link, or lies below a symbolically linked directory
RECURSIVE ThroughLink(_)
ThroughLink(p) ==
    IF p = directory THEN FALSE
    ELSE fs[p].islink \/ ThroughLink(fs[p].parent)

Range(seq) == {seq[i] : i \in 1..Len(seq)}

CountIn(seq, x) == Cardinality({i \in 1..Len(seq) : seq[i] = x})

\* the places <<category, index>> of file_types that hold the path p
Places(p) ==
    UNION {{<<c, i>> : i \in {j \in 1..Len(file_types[c]) : file_types[c][j] = p}} :
           c \in DOMAIN file_types}

RECURSIVE SumSizes(_)
SumSizes(seq) == IF seq = <<>> THEN 0 ELSE fs[Head(seq)].size + SumSizes(Tail(seq))

Flagged == Range(unusual_permissions) \cup {e[1] : e \in Range(large_files)}

-----------------------------------------------------------------------------
(* The claims. *)

\* C1: after traverse_directory completes on a fresh analyzer, file_sizes and
\* file_types have the same categories as keys, and file_sizes[c] is the sum
\* of the sizes of exactly the files listed in file_types[c], whatever files
\* were skipped.
C1_AggregationConsistency ==
    pc = "done" =>
        /\ DOMAIN file_sizes = DOMAIN file_types
        /\ \A c \in DOMAIN file_types : file_sizes[c] = SumSizes(file_types[c])

\* a completed scan that put two files of different non-zero sizes in one category
C1_Witness ==
    /\ pc = "done"
    /\ \E c \in DOMAIN file_types :
          /\ Len(file_types[c]) = 2
          /\ fs[file_types[c][1]].size = 1
          /\ fs[file_types[c][2]].size = 2

\* C2: at every step of a single scan and after it, every path in large_files
\* or unusual_permissions is held exactly once by exactly one category of
\* file_types.
C2_FlagContainment == \A p \in Flagged : Cardinality(Places(p)) = 1

\* two files of one category, the first of them flagged as large and as
\* world-writable
C2_Witness ==
    \E c \in DOMAIN file_types :
        /\ Len(file_types[c]) = 2
        /\ file_types[c][1] \in Range(unusual_permissions)
        /\ \E e \in Range(large_files) : e[1] = file_types[c][1]

C5_SymlinksNeverAnalyzed ==
    \A p \in Paths : ThroughLink(p) =>
        /\ p \notin classified
        /\ Places(p) = {}
        /\ p \notin Flagged

\* a completed scan of a listable root that holds a symbolic link to a
\* world-writable file above the threshold, and a symbolically linked directory
\* with such a file below it
C5_Witness ==
    /\ pc = "done"
    /\ ~fs[directory].denied
    /\ fs[subdir].islink
    /\ \E f, g \in FilePaths :
          /\ fs[f].parent = directory /\ fs[f].islink
          /\ fs[f].size > size_threshold /\ fs[f].mode = 438
          /\ fs[g].parent = subdir /\ ~fs[g].islink /\ fs[g].getsize_err = ""
          /\ fs[g].size > size_threshold /\ fs[g].mode = 438

\* C6: whatever files fail to give their size and whatever subdirectories
\* cannot be listed, traverse_directory never raises, never stops before the
\* walk is over, prints no error, and ends with every analyzable file held
\* exactly once by file_types.
C6_FailuresNeverAbort ==
    /\ pc # "raised"
    /\ pc = "walking" => ENABLED Next
    /\ pc = "done" =>
          /\ \A f \in FilePaths : Analyzable(f) => Cardinality(Places(f)) = 1
          /\ \A i \in 1..Len(stdout) : stdout[i].kind # "error"

\* a completed scan in which reading one file's size failed with
\* FileNotFoundError, the subdirectory could not be listed, and the other file
\* of the root was recorded
C6_Witness ==
    /\ pc = "done"
    /\ fs[subdir].denied
    /\ \E f, g \in FilePaths :
          /\ fs[f].parent = directory /\ fs[f].getsize_err = "FileNotFoundError"
          /\ fs[g].parent = directory /\ Analyzable(g) /\ Cardinality(Places(g)) = 1

\* C7: when the root directory cannot be listed, traverse_directory ends
\* without raising and has reported the failure with an error message.
C7_RootFailureSurfaced ==
    (pc \in {"done", "raised"} /\ fs[directory].denied) =>
        /\ pc = "done"
        /\ \E i \in 1..Len(stdout) : stdout[i].kind = "error"

\* C8: categorize_file_type returns one of the eight categories, and returns
\* Unknown when detection raises or yields an empty type, also for a path
\* ending in .txt.
C8_ClassifierTotalClosed ==
    ret # "" =>
        /\ ret \in Category
        /\ (arg.magic.raises \/ arg.magic.mime = "") => ret = "Unknown"

\* the classifier returned Unknown for a.txt with an empty detected type
C8_Witness ==
    /\ ret = "Unknown"
    /\ arg.path = "/r/a.txt"
    /\ ~arg.magic.raises
    /\ arg.magic.mime = ""

\* the reference of C9: the first pattern, in order, that is a substring of the
\* type; with no match Text for a .txt extension, and Other otherwise
RECURSIVE first_match(_, _)
first_match(mime_type, i) ==
    IF i > Len(categories) THEN ""
    ELSE IF Contains(mime_type, categories[i][1]) THEN categories[i][2]
    ELSE first_match(mime_type, i + 1)

final_fallback(file_path, mime_type) ==
    IF first_match(mime_type, 1) # "" THEN first_match(mime_type, 1)
    ELSE IF splitext_ext(file_path) = ".txt" THEN "Text"
    ELSE "Other"

\* C9: for every non-empty detected type and every path, categorize_file_type
\* returns what the final-fallback reference returns.
C9_TxtOverrideIsFallback ==
    (ret # "" /\ ~arg.magic.raises /\ arg.magic.mime # "") =>
        ret = final_fallback(arg.path, arg.magic.mime)

\* C10: after any number of traverse_directory calls on one analyzer over an
\* unchanged tree, the result is that of one scan: each file at most once in
\* file_types, file_sizes counting each file once, and no duplicate entry in
\* large_files or unusual_permissions.
C10_NewScanNewResult ==
    pc = "done" =>
        /\ \A f \in FilePaths :
              /\ Cardinality(Places(f)) <= 1
              /\ CountIn(unusual_permissions, f) <= 1
              /\ CountIn(large_files, <<f, fs[f].size>>) <= 1
        /\ \A c \in DOMAIN file_types :
              file_sizes[c] = SumSizes(SeqOf(Range(file_types[c])))

====
